---- MODULE Spec2Model ----
(***************************************************************************)
(* Churn model of finartcy/customer_dashboard (src/churn_model.py):        *)
(*   predict_churn_risk_simplified_rnn  - the recency-weighted scorer      *)
(*   monte_carlo_churn_prediction       - the Monte Carlo forecaster       *)
(* Floats are fixed-point integers: weights in 1/WScale, the running score *)
(* in 1/(100*WScale), exp() in 1/EScale and probabilities in 1/PScale.     *)
(***************************************************************************)
EXTENDS Integers, Sequences, FiniteSets, TLC

VARIABLES
    \* ---- one call of predict_churn_risk_simplified_rnn by a caller
    event_sequence,           \* argument: the event history
    customer_history_length,  \* argument: the window
    recent_events,            \* local, line 19
    score,                    \* local, lines 22-37
    churn_prob,               \* the returned value, line 42
    spc,                      \* "call" | "returned"
    last_op,                  \* what the caller did to the history before this call
    prev_prob,                \* the value returned for the history before last_op
    \* ---- one or two calls of monte_carlo_churn_prediction
    customer_data,            \* argument: [events, last_activity_date]
    num_simulations,          \* argument
    forecast_days,            \* argument
    rng,                      \* state of the module-level generator `random`
    seed,                     \* the argument the caller gives random.seed
    rng0,                     \* generator state when the current call started
    pc,                       \* position in the function
    current_risk,             \* line 63
    churn_probabilities,      \* line 60 / 89
    trial,                    \* the index `_` of line 66
    trial_rng,                \* the generator state each trial of the call found
    simulated_events_for_forecast, \* line 67
    sim_current_date,         \* line 69 / 82 (a datetime, as a day ordinal)
    day_forecast,             \* line 71
    result,                   \* the returned triple, line 91
    run,                      \* how many calls the caller has started
    first                     \* what the caller kept of its first call

scorerVars == <<event_sequence, customer_history_length, recent_events, score,
                churn_prob, spc, last_op, prev_prob>>
forecastVars == <<customer_data, num_simulations, forecast_days, rng, seed, rng0, pc,
                  current_risk, churn_probabilities, trial, trial_rng,
                  simulated_events_for_forecast, sim_current_date, day_forecast,
                  result, run, first>>
vars == <<scorerVars, forecastVars>>

----------------------------------------------------------------------------
(* Bounds of the explored inputs *)
MaxHist == 3        \* longest enumerated history handed to the scorer
MaxWindow == 3      \* largest enumerated non-default window
MaxEvents == 1      \* longest enumerated customer history of the forecaster
MaxSims == 3        \* largest num_simulations
MaxDays == 3        \* largest forecast_days
NumSeeds == 4       \* how many seeds the caller may pass to random.seed
MaxRuns == 2        \* how many times the caller calls the forecaster

(* Fixed-point scales and sentinels *)
WScale == 1000000   \* 1.0 as a recency weight
EScale == 1000      \* 1.0 as an argument or value of exp
PScale == 10000     \* 1.0 as a probability
NaN == -1           \* numpy's nan (mean and std of an empty list)
None == -2          \* no value yet

DefaultWindow == 30 \* customer_history_length=30
DefaultSeed == 42   \* random.seed(42)
MaxOrdinal == 3652059 \* datetime.max, 9999-12-31

(* The generator behind random.random and random.choice: a deterministic   *)
(* state machine, here a full-period congruential generator modulo LcgM.   *)
LcgM == 16
LcgA == 5
LcgC == 3

Min(a, b) == IF a <= b THEN a ELSE b
Max(a, b) == IF a >= b THEN a ELSE b

----------------------------------------------------------------------------
(* Calendar dates: datetime.strptime(.., '%Y-%m-%d'), + timedelta(days=1),  *)
(* .strftime('%Y-%m-%d').  A date string is [fmt, y, m, d]: fmt says the    *)
(* text has the shape digits-digits-digits, y/m/d are the numbers read.     *)
DateStr(y, m, d) == [fmt |-> TRUE, y |-> y, m |-> m, d |-> d]

IsLeap(y) == (y % 4 = 0 /\ y % 100 # 0) \/ y % 400 = 0

DaysInMonth(y, m) ==
    IF m = 2 THEN (IF IsLeap(y) THEN 29 ELSE 28)
    ELSE IF m \in {4, 6, 9, 11} THEN 30 ELSE 31

RECURSIVE DaysBeforeMonth(_, _)
DaysBeforeMonth(y, m) ==
    IF m <= 1 THEN 0 ELSE DaysBeforeMonth(y, m - 1) + DaysInMonth(y, m - 1)

DaysBeforeYear(y) ==
    LET p == y - 1 IN p * 365 + (p \div 4) - (p \div 100) + (p \div 400)

ToOrdinal(y, m, d) == DaysBeforeYear(y) + DaysBeforeMonth(y, m) + d

Parseable(s) ==
    /\ s.fmt
    /\ s.y \in 1..9999
    /\ s.m \in 1..12
    /\ s.d \in 1..DaysInMonth(s.y, s.m)

\* the datetime as a day ordinal; ValueError is None
strptime(s) == IF Parseable(s) THEN ToOrdinal(s.y, s.m, s.d) ELSE None

strftime(o) ==
    LET y0 == (o * 400) \div 146097
        y == CHOOSE c \in (y0 - 1)..(y0 + 2) :
                 DaysBeforeYear(c) < o /\ o <= DaysBeforeYear(c + 1)
        r == o - DaysBeforeYear(y)
        m == CHOOSE c \in 1..12 :
                 DaysBeforeMonth(y, c) < r /\ r <= DaysBeforeMonth(y, c) + DaysInMonth(y, c)
    IN DateStr(y, m, r - DaysBeforeMonth(y, m))

----------------------------------------------------------------------------
(* Events *)
TableTypes == {"inactivity", "support_query", "make_purchase", "upgrade_plan",
               "login", "view_feature"}
EventTypes == TableTypes \cup {"churned"}

Event(date, type) == [date |-> date, type |-> type]

\* one event per day, the last one on the day with ordinal `lastDay`
DailyEvents(types, lastDay) ==
    [i \in 1..Len(types) |-> Event(strftime(lastDay - Len(types) + i), types[i])]

----------------------------------------------------------------------------
(* predict_churn_risk_simplified_rnn *)

\* Python's seq[start:] for any integer start
PySliceFrom(seq, start) ==
    LET n == Len(seq)
        s == IF start < 0 THEN Max(start + n, 0) ELSE Min(start, n)
    IN SubSeq(seq, s + 1, n)

\* np.linspace(start, stop, num): num = 1 yields [start]; the last of
\* num > 1 samples is stop itself
linspace(start, stop, num) ==
    [i \in 1..num |->
        IF num = 1 THEN start
        ELSE IF i = num THEN stop
        ELSE start + ((stop - start) * (i - 1)) \div (num - 1)]

\* the if/elif chain of lines 28-37: what one event adds to score, in
\* hundredths of the weight.  Two variants of the chain come first: its last
\* elif written as an else, and the upgrade_plan branch adding instead of
\* subtracting.
ContributionElse(type, weight) ==
    IF type = "inactivity" THEN 20 * weight
    ELSE IF type = "support_query" THEN 15 * weight
    ELSE IF type = "make_purchase" THEN -(10 * weight)
    ELSE IF type = "upgrade_plan" THEN -(20 * weight)
    ELSE -(5 * weight)
ContributionUpgradeAdds(type, weight) ==
    IF type = "inactivity" THEN 20 * weight
    ELSE IF type = "support_query" THEN 15 * weight
    ELSE IF type = "make_purchase" THEN -(10 * weight)
    ELSE IF type = "upgrade_plan" THEN 20 * weight
    ELSE IF type = "login" \/ type = "view_feature" THEN -(5 * weight)
    ELSE 0
Contribution(type, weight) ==
    IF type = "inactivity" THEN 20 * weight
    ELSE IF type = "support_query" THEN 15 * weight
    ELSE IF type = "make_purchase" THEN -(10 * weight)
    ELSE IF type = "upgrade_plan" THEN -(20 * weight)
    ELSE IF type = "login" \/ type = "view_feature" THEN -(5 * weight)
    ELSE 0

\* the for loop of lines 26-37, from index i on
RECURSIVE ScoreLoop(_, _, _, _)
ScoreLoop(events, weights, i, acc) ==
    IF i > Len(events) THEN acc
    ELSE ScoreLoop(events, weights, i + 1,
                   acc + Contribution(events[i].type, weights[i]))

RunningScore(events) ==
    ScoreLoop(events, linspace(WScale \div 10, WScale, Len(events)), 1, 0)

\* exp(x) for x >= 0 by its power series, x and the value in 1/EScale
RECURSIVE ExpSeries(_, _, _, _)
ExpSeries(x, k, term, acc) ==
    LET t == (term * x) \div (k * EScale)
    IN IF t = 0 THEN acc ELSE ExpSeries(x, k + 1, t, acc + t)

exp(x) ==
    IF x >= 0 THEN ExpSeries(x, 1, EScale, EScale)
    ELSE (EScale * EScale) \div ExpSeries(-x, 1, EScale, EScale)

\* line 41: 1 / (1 + np.exp(-score)), score in 1/(100*WScale); the variant
\* is 1 / np.exp(-score)
SigmoidNoOne(s) ==
    (PScale * EScale) \div exp((-s) \div ((100 * WScale) \div EScale))
Sigmoid(s) ==
    (PScale * EScale) \div (EScale + exp((-s) \div ((100 * WScale) \div EScale)))

\* line 42: min(1.0, max(0.0, churn_prob))
Clamp(p) == Min(PScale, Max(0, p))

\* line 19; the variant takes one event more, event_sequence[-(n + 1):]
RecentEventsOneMore(events, window) == PySliceFrom(events, -(window + 1))
RecentEvents(events, window) == PySliceFrom(events, -window)

\* the function; the variant returns score itself instead of the clamped
\* logistic of it
predict_raw_score(events, window) ==
    RunningScore(RecentEvents(events, window)) \div ((100 * WScale) \div PScale)
predict_churn_risk_simplified_rnn(events, window) ==
    Clamp(Sigmoid(RunningScore(RecentEvents(events, window))))

----------------------------------------------------------------------------
(* Inputs of the scorer *)
RECURSIVE SeqsUpTo(_, _)
SeqsUpTo(S, n) ==
    IF n = 0 THEN {<<>>}
    ELSE LET shorter == SeqsUpTo(S, n - 1)
         IN shorter \cup {Append(q, x) : q \in {r \in shorter : Len(r) = n - 1}, x \in S}

Block(t, k) == [i \in 1..k |-> t]

\* histories around the default window: k events of one type, then events
\* of another type
LongTypeSeqs ==
    {Block(a, k) \o Block(b, n - k) :
        a \in EventTypes, b \in EventTypes,
        n \in (DefaultWindow - 1)..(DefaultWindow + 1),
        k \in {0, 1, DefaultWindow \div 2, DefaultWindow - 1}}

LastDay == ToOrdinal(2024, 6, 15)

Idle == [idle |-> TRUE]
NoOp == [op |-> "none", type |-> "none"]

ScorerIdle ==
    /\ event_sequence = <<>>
    /\ customer_history_length = DefaultWindow
    /\ recent_events = <<>>
    /\ score = None
    /\ churn_prob = None
    /\ spc = "idle"
    /\ last_op = NoOp
    /\ prev_prob = None

ForecastIdle ==
    /\ customer_data = Idle
    /\ num_simulations = 0
    /\ forecast_days = 0
    /\ rng = 0
    /\ seed = 0
    /\ rng0 = 0
    /\ pc = "idle"
    /\ current_risk = None
    /\ churn_probabilities = <<>>
    /\ trial = 0
    /\ trial_rng = <<>>
    /\ simulated_events_for_forecast = <<>>
    /\ sim_current_date = None
    /\ day_forecast = 0
    /\ result = Idle
    /\ run = 0
    /\ first = Idle

ScorerInit ==
    /\ \/ /\ event_sequence \in {DailyEvents(q, LastDay) : q \in SeqsUpTo(EventTypes, MaxHist)}
          /\ customer_history_length \in (0..MaxWindow) \cup {DefaultWindow}
       \/ /\ event_sequence \in {DailyEvents(q, LastDay) : q \in LongTypeSeqs}
          /\ customer_history_length = DefaultWindow
    /\ recent_events = <<>>
    /\ score = None
    /\ churn_prob = None
    /\ spc = "call"
    /\ last_op = NoOp
    /\ prev_prob = None
    /\ ForecastIdle

\* the whole function, lines 19-42
ScorerCall ==
    /\ spc = "call"
    /\ recent_events' = RecentEvents(event_sequence, customer_history_length)
    /\ score' = RunningScore(recent_events')
    /\ churn_prob' = predict_churn_risk_simplified_rnn(event_sequence, customer_history_length)
    /\ spc' = "returned"
    /\ UNCHANGED <<event_sequence, customer_history_length, last_op, prev_prob>>
    /\ UNCHANGED forecastVars

\* the caller records one more event (the day after the last one) and asks again
CallerAppends(t) ==
    /\ spc = "returned"
    /\ last_op = NoOp
    /\ event_sequence' = Append(event_sequence, Event(strftime(LastDay + 1), t))
    /\ last_op' = [op |-> "append", type |-> t]
    /\ prev_prob' = churn_prob
    /\ spc' = "call"
    /\ UNCHANGED <<customer_history_length, recent_events, score, churn_prob>>
    /\ UNCHANGED forecastVars

\* the caller finds one older event (the day before the first one) and asks again
CallerPrepends(t) ==
    /\ spc = "returned"
    /\ last_op = NoOp
    /\ event_sequence' =
           <<Event(strftime(LastDay - Len(event_sequence)), t)>> \o event_sequence
    /\ last_op' = [op |-> "prepend", type |-> t]
    /\ prev_prob' = churn_prob
    /\ spc' = "call"
    /\ UNCHANGED <<customer_history_length, recent_events, score, churn_prob>>
    /\ UNCHANGED forecastVars

AppendStep == \E t \in EventTypes : CallerAppends(t)
PrependStep == \E t \in EventTypes : CallerPrepends(t)

ScorerNext == ScorerCall \/ AppendStep \/ PrependStep

ScorerSpec == ScorerInit /\ [][ScorerNext]_vars

----------------------------------------------------------------------------
(* Properties of the scorer, checked under ScorerSpec *)

LastK(seq, k) == SubSeq(seq, Len(seq) - k + 1, Len(seq))

HasUnknown(events) == \E i \in 1..Len(events) : events[i].type \notin TableTypes

\* C1: for every event history, of any length and any mix of event types,
\* the types outside the weight table included, the scorer returns a value p
\* with 0 <= p <= 1 (for the default window and for every other window tried).
C1_ScoreInUnitInterval ==
    spc = "returned" => (0 <= churn_prob /\ churn_prob <= PScale)

\* a history longer than the default window, with an event outside the table,
\* has been scored to something other than 0, 1/2 and 1
C1_Witness ==
    /\ spc = "returned"
    /\ customer_history_length = DefaultWindow
    /\ Len(event_sequence) > DefaultWindow
    /\ HasUnknown(recent_events)
    /\ churn_prob \notin {0, PScale \div 2, PScale}

\* C3: for every history and every window w >= 0, w = 0 included, the scorer
\* considers exactly the last min(w, len(history)) events in their original
\* order, and a history with one more older event prepended beyond the window
\* gets the same score.
C3_LastWindowEvents ==
    spc = "returned" =>
        /\ recent_events =
               LastK(event_sequence, Min(customer_history_length, Len(event_sequence)))
        /\ (last_op.op = "prepend" /\ Len(event_sequence) - 1 >= customer_history_length)
               => churn_prob = prev_prob

\* C7: the scorer applied to the empty history accumulates a running score
\* of 0 and returns exactly 0.5, without raising an error.
C7_EmptyHistoryIsHalf ==
    (spc = "returned" /\ event_sequence = <<>>) =>
        (score = 0 /\ 2 * churn_prob = PScale)

C7_Witness ==
    /\ spc = "returned"
    /\ event_sequence = <<>>
    /\ recent_events = <<>>
    /\ customer_history_length = DefaultWindow

\* C8: for every history h, shorter than, as long as or longer than the
\* window, the score of h with one upgrade_plan event appended at the most
\* recent position is at most the score of h.
C8_UpgradeNeverRaisesRisk ==
    (spc = "returned" /\ last_op = [op |-> "append", type |-> "upgrade_plan"]) =>
        churn_prob <= prev_prob

\* the append shifted a full default window and lowered the score
C8_Witness ==
    /\ spc = "returned"
    /\ last_op = [op |-> "append", type |-> "upgrade_plan"]
    /\ customer_history_length = DefaultWindow
    /\ Len(event_sequence) > DefaultWindow + 1
    /\ churn_prob < prev_prob

\* the magnitudes of the weight table, in hundredths
Magnitude ==
    [t \in TableTypes |->
        CASE t = "inactivity" -> 20
          [] t = "support_query" -> 15
          [] t = "make_purchase" -> -10
          [] t = "upgrade_plan" -> -20
          [] OTHER -> -5]

RECURSIVE TableSum(_, _, _)
TableSum(events, weights, i) ==
    IF i = 0 THEN 0
    ELSE TableSum(events, weights, i - 1)
         + (IF events[i].type \in TableTypes
            THEN Magnitude[events[i].type] * weights[i] ELSE 0)

\* C9: an event whose type is outside the weight table adds 0 to the running
\* score and never makes the scorer fail; the other considered events keep
\* contributing weight * magnitude with the weight of their own position in
\* the window.
C9_UnknownTypeAddsZero ==
    (spc = "returned" /\ HasUnknown(recent_events)) =>
        score = TableSum(recent_events,
                         linspace(WScale \div 10, WScale, Len(recent_events)),
                         Len(recent_events))

\* an unknown event sits between two table events and the score is not 0
C9_Witness ==
    /\ spc = "returned"
    /\ Len(recent_events) = 3
    /\ recent_events[1].type \in TableTypes
    /\ recent_events[2].type = "churned"
    /\ recent_events[3].type \in TableTypes
    /\ score # 0

\* weights linearly spaced from 0.1 (oldest) to 1.0 (most recent), the single
\* weight of n = 1 being 1.0
ClaimedWeights(n) ==
    [i \in 1..n |->
        IF i = n THEN WScale
        ELSE (WScale \div 10) + ((WScale - (WScale \div 10)) * (i - 1)) \div (n - 1)]

\* C12: the recency weights of the n considered events are linearly spaced
\* with the oldest weighted 0.1 and the most recent weighted 1.0; when exactly
\* one event is considered its weight is 1.0, so the most recent considered
\* event has weight 1.0 for every n >= 1.  Seen through the running score
\* of a call with the default window: it is the sum of magnitude * claimed
\* weight over the considered events.
C12_MostRecentWeighsOne ==
    (spc = "returned" /\ customer_history_length = DefaultWindow) =>
        score = TableSum(recent_events, ClaimedWeights(Len(recent_events)),
                         Len(recent_events))

----------------------------------------------------------------------------
(* monte_carlo_churn_prediction *)

\* random.seed(a)
random_seed(a) == a % LcgM

\* the generator's state after one draw; the draw is that state over LcgM
RandomStep(r) == (LcgA * r + LcgC) % LcgM

\* random.choice(seq) on the draw r
random_choice(seq, r) == seq[((r * Len(seq)) \div LcgM) + 1]

\* line 74: 0.6 * (1 - current_risk)
ActivityProb(risk) == (6 * (PScale - risk)) \div 10

\* line 75: random.random() < activity_prob, on the draw r
IsActive(r, risk) == r * PScale < ActivityProb(risk) * LcgM

\* line 77: the list random.choice draws from; the variant is the list of
\* generate_customer_events, which holds upgrade_plan too
FutureActivityTypesWithUpgrade ==
    <<"login", "view_feature", "make_purchase", "support_query", "upgrade_plan">>
FutureActivityTypes == <<"login", "view_feature", "make_purchase", "support_query">>

\* `for i in range(n)` still has the iteration i to run; the variant is
\* range(n - 1)
InRangeShort(i, n) == i < n - 1
InRange(i, n) == i < n

\* line 85; the variant leaves the history out
FullEventSequenceFutureOnly(events, simulated) == simulated
FullEventSequence(events, simulated) == events \o simulated

RECURSIVE SumSeq(_, _)
SumSeq(q, i) == IF i = 0 THEN 0 ELSE SumSeq(q, i - 1) + q[i]

RECURSIVE IsqrtFrom(_, _)
IsqrtFrom(v, r) ==
    LET n == (r + (v \div r)) \div 2 IN IF n >= r THEN r ELSE IsqrtFrom(v, n)
Isqrt(v) == IF v = 0 THEN 0 ELSE IsqrtFrom(v, v)

\* np.mean: nan for the empty list
np_mean(q) == IF Len(q) = 0 THEN NaN ELSE SumSeq(q, Len(q)) \div Len(q)

\* np.std: the population standard deviation, nan for the empty list
np_std(q) ==
    IF Len(q) = 0 THEN NaN
    ELSE LET m == np_mean(q)
             sq == [i \in 1..Len(q) |-> (q[i] - m) * (q[i] - m)]
         IN Isqrt(SumSeq(sq, Len(q)) \div Len(q))

\* the six events of the customer TEST-001, lines 103-110
Test001Types == <<"login", "inactivity", "view_feature", "inactivity",
                  "support_query", "login">>

CustomerHistories ==
    {DailyEvents(q, LastDay) : q \in SeqsUpTo(EventTypes, MaxEvents) \cup {Test001Types}}

DateInputs ==
    {DateStr(2024, 6, 15), DateStr(2024, 12, 31), DateStr(9999, 12, 31),
     DateStr(2024, 2, 30), [fmt |-> FALSE, y |-> 0, m |-> 0, d |-> 0]}

\* forecasts that fill the scorer's default window, or exceed it by a day
LongForecasts == {DefaultWindow, DefaultWindow + 1}

Init ==
    /\ customer_data \in [events : CustomerHistories, last_activity_date : DateInputs]
    /\ \/ /\ num_simulations \in -1..MaxSims
          /\ forecast_days \in -1..MaxDays
       \/ /\ num_simulations = 1
          /\ forecast_days \in LongForecasts
          /\ customer_data.last_activity_date = DateStr(2024, 6, 15)
    /\ seed \in DefaultSeed..(DefaultSeed + NumSeeds - 1)
    /\ rng = random_seed(seed)
    /\ rng0 = None
    /\ pc = "start"
    /\ current_risk = None
    /\ churn_probabilities = <<>>
    /\ trial = 0
    /\ trial_rng = <<>>
    /\ simulated_events_for_forecast = <<>>
    /\ sim_current_date = None
    /\ day_forecast = 0
    /\ result = Idle
    /\ run = 1
    /\ first = Idle
    /\ ScorerIdle

\* lines 60-63, and the loop of line 66 set up; the variant does not
\* re-create the list of line 60, so the list outlives the call
CallKeepsList ==
    /\ pc = "start"
    /\ churn_probabilities' = churn_probabilities
    /\ current_risk' = predict_churn_risk_simplified_rnn(customer_data.events, DefaultWindow)
    /\ trial' = 0
    /\ trial_rng' = <<>>
    /\ rng0' = rng
    /\ pc' = "for_sim"
    /\ UNCHANGED <<customer_data, num_simulations, forecast_days, rng, seed,
                   simulated_events_for_forecast, sim_current_date, day_forecast,
                   result, run, first>>
    /\ UNCHANGED scorerVars
Call ==
    /\ pc = "start"
    /\ churn_probabilities' = <<>>
    /\ current_risk' = predict_churn_risk_simplified_rnn(customer_data.events, DefaultWindow)
    /\ trial' = 0
    /\ trial_rng' = <<>>
    /\ rng0' = rng
    /\ pc' = "for_sim"
    /\ UNCHANGED <<customer_data, num_simulations, forecast_days, rng, seed,
                   simulated_events_for_forecast, sim_current_date, day_forecast,
                   result, run, first>>
    /\ UNCHANGED scorerVars

\* lines 66-69: one more trial starts; strptime raises ValueError on a date it
\* cannot parse, the addition raises OverflowError past datetime.max.  The variant
\* creates the list of line 67 once, before the loop, instead of per trial
TrialBeginKeepsEvents ==
    /\ pc = "for_sim"
    /\ InRange(trial, num_simulations)
    /\ trial_rng' = Append(trial_rng, rng)
    /\ LET parsed == strptime(customer_data.last_activity_date)
       IN IF parsed = None \/ parsed + 1 > MaxOrdinal
          THEN /\ pc' = "raised"
               /\ UNCHANGED simulated_events_for_forecast
               /\ UNCHANGED <<sim_current_date, day_forecast>>
          ELSE /\ pc' = "for_day"
               /\ UNCHANGED simulated_events_for_forecast
               /\ sim_current_date' = parsed + 1
               /\ day_forecast' = 0
    /\ UNCHANGED <<customer_data, num_simulations, forecast_days, rng, seed, rng0,
                   current_risk, churn_probabilities, trial, result, run, first>>
    /\ UNCHANGED scorerVars
TrialBegin ==
    /\ pc = "for_sim"
    /\ InRange(trial, num_simulations)
    /\ trial_rng' = Append(trial_rng, rng)
    /\ LET parsed == strptime(customer_data.last_activity_date)
       IN IF parsed = None \/ parsed + 1 > MaxOrdinal
          THEN /\ pc' = "raised"
               /\ simulated_events_for_forecast' = <<>>
               /\ UNCHANGED <<sim_current_date, day_forecast>>
          ELSE /\ pc' = "for_day"
               /\ simulated_events_for_forecast' = <<>>
               /\ sim_current_date' = parsed + 1
               /\ day_forecast' = 0
    /\ UNCHANGED <<customer_data, num_simulations, forecast_days, rng, seed, rng0,
                   current_risk, churn_probabilities, trial, result, run, first>>
    /\ UNCHANGED scorerVars

\* lines 71-82 with the draw below activity_prob: a second draw picks the type
SimulateActivity ==
    /\ pc = "for_day"
    /\ InRange(day_forecast, forecast_days)
    /\ LET r1 == RandomStep(rng)
           r2 == RandomStep(r1)
       IN /\ IsActive(r1, current_risk)
          /\ rng' = r2
          /\ simulated_events_for_forecast' =
                 Append(simulated_events_for_forecast,
                        Event(strftime(sim_current_date),
                              random_choice(FutureActivityTypes, r2)))
    /\ IF sim_current_date + 1 > MaxOrdinal
       THEN pc' = "raised" /\ UNCHANGED <<sim_current_date, day_forecast>>
       ELSE /\ sim_current_date' = sim_current_date + 1
            /\ day_forecast' = day_forecast + 1
            /\ pc' = "for_day"
    /\ UNCHANGED <<customer_data, num_simulations, forecast_days, seed, rng0,
                   current_risk, churn_probabilities, trial, trial_rng, result,
                   run, first>>
    /\ UNCHANGED scorerVars

\* lines 71-82 with the draw not below activity_prob
SimulateInactivity ==
    /\ pc = "for_day"
    /\ InRange(day_forecast, forecast_days)
    /\ LET r1 == RandomStep(rng)
       IN /\ ~IsActive(r1, current_risk)
          /\ rng' = r1
          /\ simulated_events_for_forecast' =
                 Append(simulated_events_for_forecast,
                        Event(strftime(sim_current_date), "inactivity"))
    /\ IF sim_current_date + 1 > MaxOrdinal
       THEN pc' = "raised" /\ UNCHANGED <<sim_current_date, day_forecast>>
       ELSE /\ sim_current_date' = sim_current_date + 1
            /\ day_forecast' = day_forecast + 1
            /\ pc' = "for_day"
    /\ UNCHANGED <<customer_data, num_simulations, forecast_days, seed, rng0,
                   current_risk, churn_probabilities, trial, trial_rng, result,
                   run, first>>
    /\ UNCHANGED scorerVars

\* lines 84-89: the day loop is over, the trial is rescored and recorded
TrialEnd ==
    /\ pc = "for_day"
    /\ ~InRange(day_forecast, forecast_days)
    /\ churn_probabilities' =
           Append(churn_probabilities,
                  predict_churn_risk_simplified_rnn(
                      FullEventSequence(customer_data.events,
                                        simulated_events_for_forecast),
                      DefaultWindow))
    /\ trial' = trial + 1
    /\ pc' = "for_sim"
    /\ UNCHANGED <<customer_data, num_simulations, forecast_days, rng, seed, rng0,
                   current_risk, trial_rng, simulated_events_for_forecast,
                   sim_current_date, day_forecast, result, run, first>>
    /\ UNCHANGED scorerVars

\* line 91: the trial loop is over
Return ==
    /\ pc = "for_sim"
    /\ ~InRange(trial, num_simulations)
    /\ result' = [mean |-> np_mean(churn_probabilities),
                  std |-> np_std(churn_probabilities),
                  samples |-> churn_probabilities]
    /\ pc' = "done"
    /\ UNCHANGED <<customer_data, num_simulations, forecast_days, rng, seed, rng0,
                   current_risk, churn_probabilities, trial, trial_rng,
                   simulated_events_for_forecast, sim_current_date, day_forecast,
                   run, first>>
    /\ UNCHANGED scorerVars

\* what the caller keeps of the call that just returned
Kept == IF run = 1 THEN [rng0 |-> rng0, samples |-> result.samples] ELSE first

\* the caller seeds the generator again (random.seed) and repeats the call
CallAgainSeeded ==
    /\ pc = "done"
    /\ run < MaxRuns
    /\ rng' = random_seed(seed)
    /\ first' = Kept
    /\ run' = run + 1
    /\ pc' = "start"
    /\ current_risk' = None
    /\ trial' = 0
    /\ trial_rng' = <<>>
    /\ simulated_events_for_forecast' = <<>>
    /\ sim_current_date' = None
    /\ day_forecast' = 0
    /\ result' = Idle
    /\ UNCHANGED <<customer_data, num_simulations, forecast_days, seed, rng0,
                   churn_probabilities>>  \* the list the first call returned
    /\ UNCHANGED scorerVars

\* the menu loop of main() repeats the call from wherever the generator is
CallAgainUnseeded ==
    /\ pc = "done"
    /\ run < MaxRuns
    /\ first' = Kept
    /\ run' = run + 1
    /\ pc' = "start"
    /\ current_risk' = None
    /\ trial' = 0
    /\ trial_rng' = <<>>
    /\ simulated_events_for_forecast' = <<>>
    /\ sim_current_date' = None
    /\ day_forecast' = 0
    /\ result' = Idle
    /\ UNCHANGED <<customer_data, num_simulations, forecast_days, rng, seed, rng0,
                   churn_probabilities>>
    /\ UNCHANGED scorerVars

Next ==
    \/ Call
    \/ TrialBegin
    \/ SimulateActivity
    \/ SimulateInactivity
    \/ TrialEnd
    \/ Return
    \/ CallAgainSeeded
    \/ CallAgainUnseeded

Spec == Init /\ [][Next]_vars

----------------------------------------------------------------------------
(* Properties of the forecaster, checked under Spec *)

InUnitInterval(q) == \A i \in 1..Len(q) : 0 <= q[i] /\ q[i] <= PScale

\* C2: for every num_simulations = N >= 1 and every forecast_days >= 0 the
\* forecaster returns a samples list with exactly N elements, one appended
\* per trial, none skipped or duplicated, and every element lies in [0,1].
C2_OneSamplePerTrial ==
    (num_simulations >= 1 /\ forecast_days >= 0) =>
        /\ pc \in {"for_sim", "for_day"} =>
               (Len(churn_probabilities) = trial /\ trial <= num_simulations)
        /\ pc = "done" =>
               /\ Len(result.samples) = num_simulations
               /\ InUnitInterval(result.samples)

\* a call with several trials of several simulated days has returned
C2_Witness ==
    /\ pc = "done"
    /\ num_simulations = MaxSims
    /\ forecast_days = MaxDays
    /\ Len(result.samples) = MaxSims
    /\ \E i \in 1..MaxSims : result.samples[i] # current_risk

\* C4: a call with num_simulations < 1 or with forecast_days < 0 ends in an
\* error raised to the caller; it never returns a (mean, std_dev, samples)
\* result.
C4_InvalidParameterRaises ==
    (num_simulations < 1 \/ forecast_days < 0) => pc # "done"

\* C5: whenever last_activity_date is not parseable as a calendar date, a
\* call ends in an error and returns no result, for every num_simulations and
\* forecast_days the call accepts, and no simulated event is produced.
C5_MalformedDateRaises ==
    ~Parseable(customer_data.last_activity_date) =>
        (pc # "done" /\ simulated_events_for_forecast = <<>>)

\* C6: with forecast_days = 0 every one of the num_simulations samples equals
\* the score of the customer's history alone (the baseline), so all samples
\* are equal and no random draw influences them.
C6_ZeroDaysGivesBaseline ==
    (pc = "done" /\ forecast_days = 0) =>
        /\ \A i \in 1..Len(result.samples) : result.samples[i] = current_risk
        /\ rng = rng0

\* several samples of a baseline other than 1/2 have been returned
C6_Witness ==
    /\ pc = "done"
    /\ forecast_days = 0
    /\ Len(result.samples) >= 2
    /\ current_risk # PScale \div 2

\* C10: two calls with the same customer, num_simulations and forecast_days,
\* each started from the same seeded state of the generator, return the same
\* samples sequence.
C10_SameSeedSameSamples ==
    (pc = "done" /\ run >= 2 /\ rng0 = first.rng0) =>
        result.samples = first.samples

\* the second call drew from the generator and its trials differ
C10_Witness ==
    /\ pc = "done"
    /\ run = 2
    /\ rng0 = first.rng0
    /\ rng # rng0
    /\ Len(result.samples) >= 2
    /\ result.samples[1] # result.samples[2]

SimulatedTypes == {"login", "view_feature", "make_purchase", "support_query",
                   "inactivity"}

\* C13: in every trial and on every simulated day the generated event's type
\* is one of login, view_feature, make_purchase, support_query or inactivity,
\* never upgrade_plan or churned, and exactly one event is generated per
\* forecast day (the k-th event of a trial is dated k days after the last
\* activity).
C13_SimulatedVocabulary ==
    /\ LET last == strptime(customer_data.last_activity_date)
       IN \A k \in 1..Len(simulated_events_for_forecast) :
              /\ simulated_events_for_forecast[k].type \in SimulatedTypes
              /\ Parseable(simulated_events_for_forecast[k].date)
              /\ strptime(simulated_events_for_forecast[k].date) = last + k
    /\ pc = "for_day" => Len(simulated_events_for_forecast) = day_forecast
    /\ (pc \in {"for_sim", "done"} /\ trial >= 1) =>
           Len(simulated_events_for_forecast) = Max(forecast_days, 0)

\* a trial of several days has ended with activity and inactivity in it
C13_Witness ==
    /\ pc = "for_sim"
    /\ trial >= 1
    /\ forecast_days = MaxDays
    /\ Len(simulated_events_for_forecast) = MaxDays
    /\ \E k \in 1..MaxDays : simulated_events_for_forecast[k].type = "inactivity"
    /\ \E k \in 1..MaxDays : simulated_events_for_forecast[k].type \in TableTypes \ {"inactivity"}

\* C14: when forecast_days >= the scorer's default window, a trial's sample
\* is determined by that trial's simulated events alone: it is the score of
\* the simulated events without the history, so customers with different
\* histories whose trial generates the same simulated types get the same
\* sample.
C14_HistoryInvisible ==
    (pc = "for_sim" /\ trial >= 1 /\ forecast_days >= DefaultWindow) =>
        /\ churn_probabilities[trial] =
               predict_churn_risk_simplified_rnn(simulated_events_for_forecast,
                                                 DefaultWindow)
        /\ \A other \in CustomerHistories :
               churn_probabilities[trial] =
                   predict_churn_risk_simplified_rnn(
                       FullEventSequence(other, simulated_events_for_forecast),
                       DefaultWindow)

\* a customer with a history has had a window-filling trial rescored
C14_Witness ==
    /\ pc = "for_sim"
    /\ trial >= 1
    /\ forecast_days = DefaultWindow
    /\ Len(customer_data.events) >= 1
    /\ churn_probabilities[trial] # current_risk
    /\ \E k \in 1..DefaultWindow :
           simulated_events_for_forecast[k].type # "inactivity"

\* One trial read as a function of what it is given: the types its days
\* draw starting from the generator state r, and the state it leaves behind
RECURSIVE TrialDraws(_, _, _, _)
TrialDraws(risk, days, r, types) ==
    IF days <= 0 THEN [types |-> types, rng |-> r]
    ELSE LET r1 == RandomStep(r)
             r2 == RandomStep(r1)
         IN IF IsActive(r1, risk)
            THEN TrialDraws(risk, days - 1, r2,
                            Append(types, random_choice(FutureActivityTypes, r2)))
            ELSE TrialDraws(risk, days - 1, r1, Append(types, "inactivity"))

\* the sample of a trial that finds the generator in state r, and the state
\* the trial leaves
TrialOutcome(customer, risk, days, r) ==
    LET drawn == TrialDraws(risk, days, r, <<>>)
        future == DailyEvents(drawn.types,
                              strptime(customer.last_activity_date) + Len(drawn.types))
    IN [sample |-> predict_churn_risk_simplified_rnn(customer.events \o future,
                                                     DefaultWindow),
        rng |-> drawn.rng]

\* C11 as stated: trials share no state, nothing written by one trial is
\* read by another, and so executing the trials in any order leaves the sample
\* attributed to each trial index unchanged.  In particular the sample of
\* trial i is the one that trial gets in an order that executes it first,
\* from the generator state the call found.
C11_TrialsShareNoState ==
    pc = "done" =>
        \A i \in 1..Len(result.samples) :
            result.samples[i] =
                TrialOutcome(customer_data, current_risk, forecast_days, rng0).sample

\* C11 as amended: trials share the module-level generator and nothing else.
\* The sample of a trial depends only on the baseline, the customer's history
\* and that trial's own draws, and those draws start from the generator state
\* the previous trial left (the first trial's from the state the call found).
C11_TrialsShareOnlyGenerator ==
    pc = "done" =>
        \A i \in 1..Len(result.samples) :
            LET o == TrialOutcome(customer_data, current_risk, forecast_days,
                                  trial_rng[i])
            IN /\ result.samples[i] = o.sample
               /\ trial_rng[1] = rng0
               /\ i < Len(trial_rng) => trial_rng[i + 1] = o.rng

\* the second trial found a generator state the first trial wrote, and got
\* another sample than the first
C11_Witness ==
    /\ pc = "done"
    /\ Len(result.samples) >= 2
    /\ trial_rng[2] # rng0
    /\ result.samples[2] # result.samples[1]
    /\ result.samples[2] =
           TrialOutcome(customer_data, current_risk, forecast_days, trial_rng[2]).sample

====
